---- MODULE Spec2Model ----
(***************************************************************************)
(* ProductFulfillment (src/app/product_fulfillment.py): the dispatcher     *)
(* process_request, its five handlers, the vendor steps, the outcome       *)
(* classification and the activation-template resolution, as a state       *)
(* machine.  One delivery of a fulfillment request runs                    *)
(*   Deliver -> process_request -> handler steps -> ProcessRequestExit.    *)
(* The collaborators that are not part of ProductFulfillment (APIClient,   *)
(* Utils, Message, the Connect SDK) are the environment: what they return  *)
(* or raise is chosen with \E at the step that calls them.                 *)
(***************************************************************************)
EXTENDS Naturals, Sequences, FiniteSets, TLC

VARIABLES
    pc,          \* position inside the current call of process_request
    req,         \* the Fulfillment request being processed
    params,      \* fulfillment parameters persisted in Connect (asset params)
    calls,       \* calls made to collaborators during this delivery, in order
    handlers,    \* handlers entered during this delivery, in order
    vendor,      \* what the vendor operation of this delivery did
    vendorOk,    \* TRUE once the vendor step has returned without raising
    tmpl,        \* what the template lookup of this delivery did
    inflight,    \* the value being returned / exception being raised
    outcome,     \* how process_request ended
    attempts,    \* deliveries of the current request so far
    creates,     \* calls of the vendor create operation for the current request
    param,       \* what get_param_by_id('customer_admin_email') gives
    checked      \* how check_order_parameters ended

vars == <<pc, req, params, calls, handlers, vendor, vendorOk, tmpl, inflight, outcome,
          attempts, creates, param, checked>>

----------------------------------------------------------------------------
(* Bounds of the model *)

MaxItems == 2
MaxErrors == 1
MaxAttempts == 2
MaxEmailLen == 7

----------------------------------------------------------------------------
(* Values *)

\* Python's None, as returned by dict.get() for a key that is absent
None == "<None>"

RequestTypes == {"purchase", "change", "suspend", "resume", "cancel"}
OtherTypes == {"adjustment"}

Quantities == {3, 5}
Item == [quantity : Quantities, old_quantity : Quantities]

RECURSIVE SeqsUpTo(_, _)
SeqsUpTo(S, n) ==
    IF n = 0 THEN {<<>>}
    ELSE LET shorter == SeqsUpTo(S, n - 1)
         IN  shorter \cup {Append(s, x) : s \in {t \in shorter : Len(t) = n - 1}, x \in S}

ItemLists == SeqsUpTo(Item, MaxItems)

TemplateIds == {"", "TL-ACT", "TL-SUS"}
Configurations ==
    [activationTemplate : {"", "TL-ACT"}, suspendSubscriptionTemplate : {"", "TL-SUS"}]

Requests ==
    [id : {"PR-1"}, type : {"change"}, marketplace : {"MP-1"},
     items : ItemLists, configuration : Configurations]
    \cup
    [id : {"PR-1"}, type : (RequestTypes \cup OtherTypes) \ {"change"}, marketplace : {"MP-1"},
     items : {<<[quantity |-> 5, old_quantity |-> 3]>>}, configuration : Configurations]

\* Messages: a format and the text formatted into it
Msg(fmt, arg) == [fmt |-> fmt, arg |-> arg]
Raw(text) == Msg("{}", text)
NoMsg == Msg("", "")

\* Vendor results are dicts: keys is the set of keys present
ErrorCodes == {None, "UNKNOWN_ERROR", "INVALID_DATA"}
ErrorMessages == {"timeout", "rejected"}
ErrorEntry == [errorCode : ErrorCodes, errorMessage : ErrorMessages]
ErrorLists == SeqsUpTo(ErrorEntry, MaxErrors)
TenantIds == {"T1"}
StatusCodes == {"success", "SUCCESS", "failed"}

\* a key that is absent carries a fixed placeholder, so that each dict is one value
Field(k, key, values, placeholder) == IF key \in k THEN values ELSE {placeholder}

VendorResults ==
    UNION { [keys : {k},
             tenantId : Field(k, "tenantId", TenantIds \cup {""}, ""),
             status : Field(k, "status", StatusCodes, ""),
             errors : Field(k, "errors", ErrorLists, <<>>),
             error : Field(k, "error", {"boom"}, "")] :
            k \in SUBSET {"tenantId", "status", "errors", "error"} }

NoResult == [keys |-> {}, tenantId |-> "", status |-> "", errors |-> <<>>, error |-> ""]

\* Exceptions: the class and the message
ExcKinds == {"SkipRequest", "FailRequest", "InquireRequest", "Exception",
             "KeyError", "IndexError", "TransportError"}
Exc(kind, msg) == [kind |-> kind, msg |-> msg, template_id |-> ""]
Returned(template_id) == [kind |-> "artifact", msg |-> NoMsg, template_id |-> template_id]
ReturnedNone == [kind |-> "None", msg |-> NoMsg, template_id |-> ""]
Nothing == [kind |-> "none", msg |-> NoMsg, template_id |-> ""]
IsExc(v) == v.kind \in ExcKinds

\* the keys a result of a vendor operation may carry: the tenant id comes with a
\* create result, a status code with the results of the other operations
ResultKeys(op) ==
    IF op = "create_subscription" THEN {"tenantId", "errors", "error"}
    ELSE {"status", "errors", "error"}

\* What a vendor operation (APIClient.*_subscription) does: returns a dict or raises
VendorBehaviours(op) ==
    { [raises |-> "none", text |-> "", result |-> r] :
        r \in {x \in VendorResults : x.keys \subseteq ResultKeys(op)} }
    \cup
    { [raises |-> k, text |-> "vendor down", result |-> NoResult] :
        k \in {"FailRequest", "SkipRequest", "InquireRequest", "TransportError"} }
NoVendor == [raises |-> "none", text |-> "", result |-> NoResult]

\* What Utils.get_activation_template does: returns the configured id or raises
TemplateBehaviours ==
    { [raises |-> k, text |-> IF k = "none" THEN "" ELSE "lookup failed"] :
        k \in {"none", "FailRequest", "SkipRequest", "InquireRequest", "Exception"} }
NoTemplate == [raises |-> "unused", text |-> ""]

\* The customer_admin_email ordering parameter: get_param_by_id gives None when
\* the asset has no such parameter, else a Param whose value is a string of
\* characters (empty when nothing was entered)
EmailChars == {"a", "_", ".", "@"}
Emails == SeqsUpTo(EmailChars, MaxEmailLen)
OrderParams == [present : {TRUE}, value : Emails] \cup {[present |-> FALSE, value |-> <<>>]}
NoOrderParam == [present |-> TRUE, value |-> <<>>]

\* how check_order_parameters ends: the exception class (or "None" for a plain
\* return), the message and the parameter list handed to InquireRequest
Checked(kind, msg, ps) == [kind |-> kind, msg |-> msg, params |-> ps]
NotChecked == Checked("none", "", <<>>)

\* A call to a collaborator
Call(op, id, value) == [op |-> op, id |-> id, value |-> value]
VendorOps == {"create_subscription", "change_subscription", "cancel_subscription",
              "suspend_subscription", "resume_subscription"}

----------------------------------------------------------------------------
(* Collaborators outside ProductFulfillment *)

\* Message.Shared.NOT_ALLOWED_DOWNSIZE: the fixed policy message
NOT_ALLOWED_DOWNSIZE == Msg("NOT_ALLOWED_DOWNSIZE", "")
\* Message.Shared.ACTIVATING_TEMPLATE_ERROR.format(text)
ACTIVATING_TEMPLATE_ERROR(text) == Msg("ACTIVATING_TEMPLATE_ERROR", text)
\* Message.Shared.EMPTY_ACTIVATION_TILE.format(marketplace id)
EMPTY_ACTIVATION_TILE(marketplace) == Msg("EMPTY_ACTIVATION_TILE", marketplace)

\* Utils.is_downsize_request: some item's requested quantity is below its current one
is_downsize_request(items) ==
    \E i \in 1..Len(items) : items[i].quantity < items[i].old_quantity

\* Utils.get_status_code: the status code of a vendor result, empty when absent
get_status_code(result) == IF "status" \in result.keys THEN result.status ELSE ""

\* str.lower() on the status codes
Lower(s) == IF s = "SUCCESS" THEN "success" ELSE s

\* automation.update_parameters(req.id, [Param(id, value)]): the call, and what
\* Connect persists
update_parameters(ps, id, value) ==
    [calls |-> <<Call("update_parameters", id, value)>>,
     params |-> [ps EXCEPT ![id] = value]]

----------------------------------------------------------------------------
(* ProductFulfillment *)

\* Route with the suspend branch calling the cancel handler
RouteSuspendToCancel(type) ==
    IF type = "purchase" THEN "purchase"
    ELSE IF type = "change" THEN "change"
    ELSE IF type = "suspend" THEN "cancel"
    ELSE IF type = "resume" THEN "resume"
    ELSE IF type = "cancel" THEN "cancel"
    ELSE "none"

\* Route with the last test dropped: whatever is left is taken for a cancel
RouteElseCancel(type) ==
    IF type = "purchase" THEN "purchase"
    ELSE IF type = "change" THEN "change"
    ELSE IF type = "suspend" THEN "suspend"
    ELSE IF type = "resume" THEN "resume"
    ELSE "cancel"

\* process_request, lines 25-41: the handler a request type is routed to
Route(type) ==
    IF type = "purchase" THEN "purchase"
    ELSE IF type = "change" THEN "change"
    ELSE IF type = "suspend" THEN "suspend"
    ELSE IF type = "resume" THEN "resume"
    ELSE IF type = "cancel" THEN "cancel"
    ELSE "none"

\* the except clauses of process_request with FailRequest turned into SkipRequest
ProcessRequestExceptFailToSkip(v) ==
    IF v.kind = "SkipRequest" THEN v
    ELSE IF v.kind = "FailRequest" THEN Exc("SkipRequest", v.msg)
    ELSE v

\* process_request, lines 44-49: SkipRequest and FailRequest are logged and raised
\* again, every other exception passes through, a returned value is returned
ProcessRequestExcept(v) ==
    IF v.kind = "SkipRequest" THEN v
    ELSE IF v.kind = "FailRequest" THEN v
    ELSE v

\* the result of a step: the exception it raised (or Nothing), the calls it made,
\* the parameters persisted afterwards
Step(exc, cs, ps) == [exc |-> exc, calls |-> cs, params |-> ps]

\* _create_subscription, lines 121-130: the vendor result carried no tenant id
CreateErrors(result) ==
    IF "errors" \notin result.keys THEN Exc("KeyError", Raw("errors"))
    ELSE IF Len(result.errors) = 0 THEN Exc("IndexError", Raw("list index out of range"))
    ELSE IF result.errors[1].errorCode = None \/ result.errors[1].errorCode = "UNKNOWN_ERROR"
         THEN Exc("SkipRequest", Raw(result.errors[1].errorMessage))
    ELSE Exc("FailRequest", Raw(result.errors[1].errorMessage))

\* _create_subscription that creates nothing when a subscriptionId is stored
create_subscription_unless_stored(r, vb, ps) ==
    LET cs == <<Call("get_credentials", r.marketplace, ""),
                Call("create_subscription", "", "")>>
    IN  IF ps.subscriptionId # "" THEN Step(Nothing, <<>>, ps)
        ELSE IF vb.raises # "none" THEN Step(Exc(vb.raises, Raw(vb.text)), cs, ps)
        ELSE IF "tenantId" \notin vb.result.keys
             THEN Step(Exc("KeyError", Raw("tenantId")), cs, ps)
        ELSE IF vb.result.tenantId # ""
             THEN LET up == update_parameters(ps, "subscriptionId", vb.result.tenantId)
                  IN  Step(Nothing, cs \o up.calls, up.params)
        ELSE Step(CreateErrors(vb.result), cs, ps)

\* _create_subscription that returns the created subscription without saving
\* its id
create_subscription_no_update(r, vb, ps) ==
    LET cs == <<Call("get_credentials", r.marketplace, ""),
                Call("create_subscription", "", "")>>
    IN  IF vb.raises # "none" THEN Step(Exc(vb.raises, Raw(vb.text)), cs, ps)
        ELSE IF "tenantId" \notin vb.result.keys
             THEN Step(Exc("KeyError", Raw("tenantId")), cs, ps)
        ELSE IF vb.result.tenantId # "" THEN Step(Nothing, cs, ps)
        ELSE Step(CreateErrors(vb.result), cs, ps)

\* _create_subscription, lines 91-137
_create_subscription(r, vb, ps) ==
    LET cs == <<Call("get_credentials", r.marketplace, ""),
                Call("create_subscription", "", "")>>
    IN  IF vb.raises # "none" THEN Step(Exc(vb.raises, Raw(vb.text)), cs, ps)
        ELSE IF "tenantId" \notin vb.result.keys
             THEN Step(Exc("KeyError", Raw("tenantId")), cs, ps)
        ELSE IF vb.result.tenantId # ""
             THEN LET up == update_parameters(ps, "subscriptionId", vb.result.tenantId)
                  IN  Step(Nothing, cs \o up.calls, up.params)
        ELSE Step(CreateErrors(vb.result), cs, ps)

\* check_if_downsize that logs the downsize and does not raise
check_if_downsize_no_raise(r) == Nothing

\* check_if_downsize, lines 213-218
check_if_downsize(r) ==
    IF is_downsize_request(r.items)
    THEN Exc("FailRequest", NOT_ALLOWED_DOWNSIZE)
    ELSE Nothing

\* _check_update_response, lines 262-279: the status code was not success
UpdateErrors(result) ==
    IF "errors" \in result.keys
    THEN IF Len(result.errors) = 0 THEN Exc("IndexError", Raw("list index out of range"))
         ELSE IF result.errors[1].errorCode = None
                 \/ result.errors[1].errorCode = "UNKNOWN_ERROR"
              THEN Exc("SkipRequest", Raw(result.errors[1].errorMessage))
         ELSE Exc("FailRequest", Raw(result.errors[1].errorMessage))
    ELSE IF "error" \in result.keys THEN Exc("Exception", Raw(result.error))
    ELSE Nothing

\* _check_update_response comparing the status code as it comes, without lower()
check_update_response_case_sensitive(result, ps) ==
    IF get_status_code(result) = "success"
    THEN LET up == update_parameters(ps, "creationDate", "now")
         IN  Step(Nothing, up.calls, up.params)
    ELSE Step(UpdateErrors(result), <<>>, ps)

\* _check_update_response, lines 251-279
_check_update_response(result, ps) ==
    IF Lower(get_status_code(result)) = "success"
    THEN LET up == update_parameters(ps, "creationDate", "now")
         IN  Step(Nothing, up.calls, up.params)
    ELSE Step(UpdateErrors(result), <<>>, ps)

\* _change_subscription, lines 221-249
_change_subscription(r, vb, ps) ==
    LET cs == <<Call("get_credentials", r.marketplace, ""),
                Call("change_subscription", ps.subscriptionId, "")>>
    IN  IF vb.raises # "none" THEN Step(Exc(vb.raises, Raw(vb.text)), cs, ps)
        ELSE LET chk == _check_update_response(vb.result, ps)
             IN  Step(chk.exc, cs \o chk.calls, chk.params)

\* _cancel_subscription (311-337), _suspend_subscription (382-409) and
\* _resume_subscription (454-481): the result is returned as it is
_cancel_subscription(r, vb, ps) ==
    LET cs == <<Call("get_credentials", r.marketplace, ""),
                Call("cancel_subscription", ps.subscriptionId, "")>>
    IN  IF vb.raises # "none" THEN Step(Exc(vb.raises, Raw(vb.text)), cs, ps)
        ELSE Step(Nothing, cs, ps)

_suspend_subscription(r, vb, ps) ==
    LET cs == <<Call("get_credentials", r.marketplace, ""),
                Call("suspend_subscription", ps.subscriptionId, "")>>
    IN  IF vb.raises # "none" THEN Step(Exc(vb.raises, Raw(vb.text)), cs, ps)
        ELSE Step(Nothing, cs, ps)

_resume_subscription(r, vb, ps) ==
    LET cs == <<Call("get_credentials", r.marketplace, ""),
                Call("resume_subscription", ps.subscriptionId, "")>>
    IN  IF vb.raises # "none" THEN Step(Exc(vb.raises, Raw(vb.text)), cs, ps)
        ELSE Step(Nothing, cs, ps)

\* TemplateType with cancel asking for the activation template
TemplateTypeCancelActivation(handler) ==
    IF handler = "suspend" THEN "suspendSubscriptionTemplate"
    ELSE "activationTemplate"

\* re.search with the pattern of line 521,
\* ^[a-z0-9]+[\._]?[a-z0-9]+[@]\w+[.]\w{2,3}$
AllIn(seq, S) == \A i \in 1..Len(seq) : seq[i] \in S
Alnum == {"a"}
Word == {"a", "_"}

MatchesLocalPart(l) ==
    \/ Len(l) >= 2 /\ AllIn(l, Alnum)
    \/ \E k \in 2..(Len(l) - 1) :
          /\ l[k] \in {".", "_"}
          /\ AllIn(SubSeq(l, 1, k - 1), Alnum)
          /\ AllIn(SubSeq(l, k + 1, Len(l)), Alnum)

EmailRegexMatches(e) ==
    \E at \in 1..Len(e), dot \in 1..Len(e) :
        /\ e[at] = "@"
        /\ e[dot] = "."
        /\ at + 1 < dot
        /\ MatchesLocalPart(SubSeq(e, 1, at - 1))
        /\ AllIn(SubSeq(e, at + 1, dot - 1), Word)
        /\ Len(e) - dot \in {2, 3}
        /\ AllIn(SubSeq(e, dot + 1, Len(e)), Word)

\* hasattr(req.asset.get_param_by_id('customer_admin_email'), 'value'), line 538
HasValue(p) == p.present

\* check_order_parameters, lines 513-540
check_order_parameters(p) ==
    IF ~p.present
    THEN Checked("AttributeError", "'NoneType' object has no attribute 'value'", <<>>)
    ELSE LET email == p.value
             ps == IF email # <<>> /\ EmailRegexMatches(email)
                   THEN <<[id |-> "customer_admin_email", value |-> email]>>
                   ELSE <<>>
             error_msg == IF email # <<>>
                          THEN IF EmailRegexMatches(email) THEN ""
                               ELSE "Please enter a valid customer admin email."
                          ELSE "Please enter customer admin email."
         IN  IF ~HasValue(p)
             THEN Checked("InquireRequest", error_msg, ps)
             ELSE Checked("None", "", <<>>)

\* the template kind each handler asks for (lines 74, 199, 295, 366, 438)
TemplateType(handler) ==
    IF handler = "purchase" THEN "activationTemplate"
    ELSE IF handler = "change" THEN "activationTemplate"
    ELSE IF handler = "cancel" THEN "suspendSubscriptionTemplate"
    ELSE IF handler = "suspend" THEN "suspendSubscriptionTemplate"
    ELSE "activationTemplate"

\* activate_template, lines 497-511: the value returned or the exception raised
activate_template(r, template_type, tb) ==
    IF tb.raises # "none" THEN Exc(tb.raises, Raw(tb.text))
    ELSE IF Len(r.configuration[template_type]) = 0
         THEN Exc("SkipRequest", EMPTY_ACTIVATION_TILE(r.marketplace))
    ELSE Returned(r.configuration[template_type])

\* TemplateExcept with the FailRequest clause raising the error again, as the
\* vendor steps do
TemplateExceptReraiseFail(v) ==
    IF v.kind = "artifact" THEN v
    ELSE IF v.kind = "SkipRequest" THEN v
    ELSE IF v.kind = "FailRequest" THEN v
    ELSE Exc("SkipRequest", ACTIVATING_TEMPLATE_ERROR(v.msg.arg))

\* the except clauses around activate_template in every handler
\* (lines 78-87, 201-210, 299-308, 370-379, 442-451)
TemplateExcept(v) ==
    IF v.kind = "artifact" THEN v
    ELSE IF v.kind = "SkipRequest" THEN v
    ELSE IF v.kind = "FailRequest"
         THEN Exc("SkipRequest", ACTIVATING_TEMPLATE_ERROR(v.msg.arg))
    ELSE Exc("SkipRequest", ACTIVATING_TEMPLATE_ERROR(v.msg.arg))

----------------------------------------------------------------------------
(* The state machine *)

NoRequest ==
    [id |-> "PR-1", type |-> "adjustment", marketplace |-> "MP-1",
     items |-> <<[quantity |-> 5, old_quantity |-> 3]>>,
     configuration |-> [activationTemplate |-> "", suspendSubscriptionTemplate |-> ""]]

\* the subscriptionId fulfillment parameter of the asset when the request arrives:
\* empty, or the id an earlier purchase stored
StoredSubscriptionIds == {"", "T0"}

Init ==
    /\ pc = "idle"
    /\ req = NoRequest
    /\ params \in [subscriptionId : StoredSubscriptionIds, creationDate : {""}]
    /\ calls = <<>>
    /\ handlers = <<>>
    /\ vendor = NoVendor
    /\ vendorOk = FALSE
    /\ tmpl = NoTemplate
    /\ inflight = Nothing
    /\ outcome = Nothing
    /\ attempts = 0
    /\ creates = 0
    /\ param = NoOrderParam
    /\ checked = NotChecked

\* what a new call of process_request starts from; the request and the persisted
\* parameters are not touched
StartCall ==
    /\ pc' = "process_request"
    /\ calls' = <<>>
    /\ handlers' = <<>>
    /\ vendor' = NoVendor
    /\ vendorOk' = FALSE
    /\ tmpl' = NoTemplate
    /\ inflight' = Nothing
    /\ outcome' = Nothing
    /\ UNCHANGED <<params, param, checked>>

\* the delivery mechanism hands a pending request to process_request
Deliver ==
    /\ pc = "idle"
    /\ \E r \in Requests : req' = r
    /\ attempts' = 1
    /\ creates' = 0
    /\ StartCall

\* the delivery mechanism hands the same request over again after a SkipRequest
Redeliver ==
    /\ pc = "done"
    /\ outcome.kind = "SkipRequest"
    /\ attempts < MaxAttempts
    /\ attempts' = attempts + 1
    /\ UNCHANGED <<req, creates>>
    /\ StartCall

\* process_request, lines 25-41: enter the handler of the request type, or fall
\* off the end of the function
process_request ==
    /\ pc = "process_request"
    /\ IF Route(req.type) = "none"
       THEN /\ pc' = "return"
            /\ inflight' = ReturnedNone
            /\ UNCHANGED handlers
       ELSE /\ pc' = Route(req.type)
            /\ handlers' = Append(handlers, Route(req.type))
            /\ UNCHANGED inflight
    /\ UNCHANGED <<req, params, calls, vendor, vendorOk, tmpl, outcome, attempts, creates,
                   param, checked>>

\* a vendor step ended: go on to the template, or unwind with the exception
AfterVendorStep(vb, res) ==
    /\ vendor' = vb
    /\ calls' = calls \o res.calls
    /\ params' = res.params
    /\ IF IsExc(res.exc)
       THEN /\ pc' = "raise"
            /\ inflight' = res.exc
            /\ UNCHANGED vendorOk
       ELSE /\ pc' = "activate_template"
            /\ vendorOk' = TRUE
            /\ UNCHANGED inflight
    /\ creates' = creates + Len(SelectSeq(res.calls, LAMBDA c : c.op = "create_subscription"))
    /\ UNCHANGED <<req, handlers, tmpl, outcome, attempts, param, checked>>

\* purchase, line 68
purchase ==
    /\ pc = "purchase"
    /\ \E vb \in VendorBehaviours("create_subscription") :
          AfterVendorStep(vb, _create_subscription(req, vb, params))

\* change, line 186
change ==
    /\ pc = "change"
    /\ IF IsExc(check_if_downsize(req))
       THEN /\ pc' = "raise"
            /\ inflight' = check_if_downsize(req)
       ELSE /\ pc' = "_change_subscription"
            /\ UNCHANGED inflight
    /\ UNCHANGED <<req, params, calls, handlers, vendor, vendorOk, tmpl, outcome,
                   attempts, creates, param, checked>>

\* change, line 190
change_vendor ==
    /\ pc = "_change_subscription"
    /\ \E vb \in VendorBehaviours("change_subscription") :
          AfterVendorStep(vb, _change_subscription(req, vb, params))

\* cancel, line 288
cancel ==
    /\ pc = "cancel"
    /\ \E vb \in VendorBehaviours("cancel_subscription") :
          AfterVendorStep(vb, _cancel_subscription(req, vb, params))

\* suspend, line 359
suspend ==
    /\ pc = "suspend"
    /\ \E vb \in VendorBehaviours("suspend_subscription") :
          AfterVendorStep(vb, _suspend_subscription(req, vb, params))

\* resume, line 431
resume ==
    /\ pc = "resume"
    /\ \E vb \in VendorBehaviours("resume_subscription") :
          AfterVendorStep(vb, _resume_subscription(req, vb, params))

\* the try block that ends every handler: activate_template and the except clauses
handler_template ==
    /\ pc = "activate_template"
    /\ \E tb \in TemplateBehaviours :
        LET kind == TemplateType(handlers[Len(handlers)])
            v == TemplateExcept(activate_template(req, kind, tb))
        IN  /\ tmpl' = tb
            /\ calls' = Append(calls, Call("get_activation_template", kind, ""))
            /\ inflight' = v
            /\ pc' = IF IsExc(v) THEN "raise" ELSE "return"
    /\ UNCHANGED <<req, params, handlers, vendor, vendorOk, outcome, attempts, creates,
                   param, checked>>

\* process_request, lines 44-49: the call ends
process_request_exit ==
    /\ pc \in {"raise", "return"}
    /\ outcome' = ProcessRequestExcept(inflight)
    /\ pc' = "done"
    /\ UNCHANGED <<req, params, calls, handlers, vendor, vendorOk, tmpl, inflight,
                   attempts, creates, param, checked>>

Next ==
    \/ Deliver
    \/ Redeliver
    \/ process_request
    \/ purchase
    \/ change
    \/ change_vendor
    \/ cancel
    \/ suspend
    \/ resume
    \/ handler_template
    \/ process_request_exit

Spec == Init /\ [][Next]_vars

----------------------------------------------------------------------------
(* check_order_parameters on its own: purchase does not call it (line 59 is a
   comment), so it is applied to every customer_admin_email parameter *)

InitOrder ==
    /\ pc = "check_order_parameters"
    /\ param \in OrderParams
    /\ checked = NotChecked
    /\ req = NoRequest
    /\ params = [subscriptionId |-> "", creationDate |-> ""]
    /\ calls = <<>>
    /\ handlers = <<>>
    /\ vendor = NoVendor
    /\ vendorOk = FALSE
    /\ tmpl = NoTemplate
    /\ inflight = Nothing
    /\ outcome = Nothing
    /\ attempts = 0
    /\ creates = 0

check_order_parameters_call ==
    /\ pc = "check_order_parameters"
    /\ checked' = check_order_parameters(param)
    /\ pc' = "checked"
    /\ UNCHANGED <<req, params, calls, handlers, vendor, vendorOk, tmpl, inflight, outcome,
                   attempts, creates, param>>

NextOrder == check_order_parameters_call

SpecOrder == InitOrder /\ [][NextOrder]_vars

----------------------------------------------------------------------------
(* Vocabulary of the properties *)

CallsOf(op) == SelectSeq(calls, LAMBDA c : c.op = op)
VendorCalls == SelectSeq(calls, LAMBDA c : c.op \in VendorOps)
Called(op) == \E i \in 1..Len(calls) : calls[i].op = op

\* the vendor operation that belongs to a request type
VendorOpOf(type) ==
    CASE type = "purchase" -> "create_subscription"
      [] type = "change" -> "change_subscription"
      [] type = "cancel" -> "cancel_subscription"
      [] type = "suspend" -> "suspend_subscription"
      [] type = "resume" -> "resume_subscription"
      [] OTHER -> "none"

\* the vendor operation of this call returned this dict
VendorReturned == Len(VendorCalls) > 0 /\ vendor.raises = "none"

----------------------------------------------------------------------------
(* C1: for a request of one of the five types process_request runs exactly one
   handler, the handler of that type, and the only vendor operation invoked
   during the call is that handler's. *)
C1_ExactlyOneHandler ==
    req.type \in RequestTypes =>
        /\ Len(handlers) <= 1
        /\ \A i \in 1..Len(handlers) : handlers[i] = req.type
        /\ \A i \in 1..Len(calls) :
              calls[i].op \in VendorOps => calls[i].op = VendorOpOf(req.type)
        /\ Len(VendorCalls) <= 1
        /\ pc = "done" => handlers = <<req.type>>

C1_Witness ==
    /\ pc = "done"
    /\ req.type = "suspend"
    /\ handlers = <<"suspend">>
    /\ Len(VendorCalls) = 1
    /\ Called("suspend_subscription")

----------------------------------------------------------------------------
(* C2: in every handler, once the vendor step has returned without raising, a
   failure of the template resolution never reaches the caller as FailRequest:
   an empty template id ends in SkipRequest, a FailRequest raised by the
   resolution ends in SkipRequest, and any other exception raised by it ends in
   SkipRequest carrying the exception text. *)
C2_TemplateFailureIsTransient ==
    (pc = "done" /\ vendorOk) =>
        LET kind == calls[Len(calls)].id
        IN  /\ outcome.kind \in {"artifact", "SkipRequest"}
            /\ (tmpl.raises = "none" /\ req.configuration[kind] = "")
                  => outcome = Exc("SkipRequest", EMPTY_ACTIVATION_TILE(req.marketplace))
            /\ tmpl.raises = "FailRequest"
                  => outcome = Exc("SkipRequest", ACTIVATING_TEMPLATE_ERROR(tmpl.text))
            /\ tmpl.raises \in {"InquireRequest", "Exception"}
                  => /\ outcome.kind = "SkipRequest"
                     /\ outcome.msg.arg = tmpl.text

C2_Witness ==
    /\ pc = "done"
    /\ vendorOk
    /\ handlers = <<"purchase">>
    /\ tmpl.raises = "FailRequest"
    /\ outcome.kind = "SkipRequest"

----------------------------------------------------------------------------
(* C3: a change request in which some line item's requested quantity is lower
   than its current quantity ends in FailRequest with the fixed
   not-allowed-downsize message, and when it is raised no vendor operation has
   been called, no credentials have been resolved and update_parameters has not
   been called: the call log is empty and the vendor step is never reached. *)
C3_DownsizeFailsBeforeVendor ==
    (req.type = "change"
     /\ \E i \in 1..Len(req.items) : req.items[i].quantity < req.items[i].old_quantity) =>
        /\ calls = <<>>
        /\ pc \notin {"_change_subscription", "activate_template", "return"}
        /\ pc = "raise" => inflight = Exc("FailRequest", NOT_ALLOWED_DOWNSIZE)
        /\ pc = "done" => outcome = Exc("FailRequest", NOT_ALLOWED_DOWNSIZE)

C3_Witness ==
    /\ pc = "done"
    /\ req.type = "change"
    /\ req.items = <<[quantity |-> 5, old_quantity |-> 5], [quantity |-> 3, old_quantity |-> 5]>>
    /\ outcome = Exc("FailRequest", NOT_ALLOWED_DOWNSIZE)
    /\ calls = <<>>

----------------------------------------------------------------------------
(* C4: when the create result of a purchase carries a non-empty tenantId T,
   update_parameters is called exactly once, with subscriptionId = T, before the
   template is resolved; and when the lookup then returns a non-empty configured
   id, the call returns the artifact of template kind 'activationTemplate'. *)
C4_PurchasePersistsThenActivates ==
    (req.type = "purchase" /\ VendorReturned
     /\ "tenantId" \in vendor.result.keys /\ vendor.result.tenantId # "") =>
        /\ CallsOf("update_parameters")
              = <<Call("update_parameters", "subscriptionId", vendor.result.tenantId)>>
        /\ params.subscriptionId = vendor.result.tenantId
        /\ \A i, j \in 1..Len(calls) :
              (calls[i].op = "update_parameters" /\ calls[j].op = "get_activation_template")
                  => i < j
        /\ pc = "activate_template" => ~Called("get_activation_template")
        /\ (pc = "done" /\ tmpl.raises = "none" /\ req.configuration.activationTemplate # "")
              => /\ outcome = Returned(req.configuration.activationTemplate)
                 /\ CallsOf("get_activation_template")
                       = <<Call("get_activation_template", "activationTemplate", "")>>

C4_Witness ==
    /\ pc = "done"
    /\ req.type = "purchase"
    /\ vendor.result.tenantId = "T1"
    /\ CallsOf("update_parameters") = <<Call("update_parameters", "subscriptionId", "T1")>>
    /\ outcome = Returned("TL-ACT")

----------------------------------------------------------------------------
(* Outcome classification: the shapes of a vendor result *)

\* the result is a success for this request type: a non-empty tenantId for
\* purchase, a status code equal to 'success' whatever its case for change
IsSuccess(type, result) ==
    IF type = "purchase"
    THEN "tenantId" \in result.keys /\ result.tenantId # ""
    ELSE "status" \in result.keys /\ result.status \in {"success", "SUCCESS"}

HasFirstError(result) == "errors" \in result.keys /\ Len(result.errors) >= 1

FirstErrorIsUnknown(result) ==
    /\ HasFirstError(result)
    /\ result.errors[1].errorCode \in {None, "UNKNOWN_ERROR"}

FirstErrorIsNamed(result) ==
    /\ HasFirstError(result)
    /\ result.errors[1].errorCode \notin {None, "UNKNOWN_ERROR"}

----------------------------------------------------------------------------
(* C5: for purchase and change, whenever the vendor result is not a success and
   the first entry of its errors list has no errorCode or the errorCode
   'UNKNOWN_ERROR', the call ends with SkipRequest whose message is that entry's
   errorMessage, and update_parameters is not called. *)
C5_UnknownErrorIsTransient ==
    (pc = "done" /\ req.type \in {"purchase", "change"} /\ VendorReturned
     /\ ~IsSuccess(req.type, vendor.result) /\ FirstErrorIsUnknown(vendor.result)) =>
        /\ outcome = Exc("SkipRequest", Raw(vendor.result.errors[1].errorMessage))
        /\ ~Called("update_parameters")

\* C5 where it holds: change, and purchase when the result carries the tenantId
\* key (with an empty value)
C5_HoldsWithTenantIdKey ==
    (pc = "done" /\ req.type \in {"purchase", "change"} /\ VendorReturned
     /\ (req.type = "purchase" => "tenantId" \in vendor.result.keys)
     /\ ~IsSuccess(req.type, vendor.result) /\ FirstErrorIsUnknown(vendor.result)) =>
        /\ outcome = Exc("SkipRequest", Raw(vendor.result.errors[1].errorMessage))
        /\ ~Called("update_parameters")

----------------------------------------------------------------------------
(* C6: for purchase and change, whenever the vendor result is not a success and
   the first entry of its errors list has an errorCode other than
   'UNKNOWN_ERROR', the call ends with FailRequest whose message is that entry's
   errorMessage, and that FailRequest reaches the caller of process_request. *)
C6_NamedErrorIsTerminal ==
    (pc = "done" /\ req.type \in {"purchase", "change"} /\ VendorReturned
     /\ ~IsSuccess(req.type, vendor.result) /\ FirstErrorIsNamed(vendor.result)) =>
        outcome = Exc("FailRequest", Raw(vendor.result.errors[1].errorMessage))

\* C6 where it holds: change, and purchase when the result carries the tenantId key
C6_HoldsWithTenantIdKey ==
    (pc = "done" /\ req.type \in {"purchase", "change"} /\ VendorReturned
     /\ (req.type = "purchase" => "tenantId" \in vendor.result.keys)
     /\ ~IsSuccess(req.type, vendor.result) /\ FirstErrorIsNamed(vendor.result)) =>
        outcome = Exc("FailRequest", Raw(vendor.result.errors[1].errorMessage))

----------------------------------------------------------------------------
(* C7: a cancel request (likewise suspend and resume) whose vendor result is
   {errors: [{errorCode: 'UNKNOWN_ERROR', errorMessage: m}]} ends with
   SkipRequest(m) and returns no activation artifact. *)
C7_CancelUnknownErrorIsTransient ==
    (pc = "done" /\ req.type \in {"cancel", "suspend", "resume"} /\ VendorReturned
     /\ vendor.result.keys = {"errors"} /\ Len(vendor.result.errors) = 1
     /\ vendor.result.errors[1].errorCode = "UNKNOWN_ERROR") =>
        outcome = Exc("SkipRequest", Raw(vendor.result.errors[1].errorMessage))

----------------------------------------------------------------------------
(* C8: when the vendor result of a change request has no success status and no
   errors list but has a generic error field, process_request ends with
   FailRequest carrying that raw error message. *)
C8_GenericErrorIsTerminal ==
    (pc = "done" /\ req.type = "change" /\ VendorReturned
     /\ ~IsSuccess("change", vendor.result)
     /\ "errors" \notin vendor.result.keys /\ "error" \in vendor.result.keys) =>
        outcome = Exc("FailRequest", Raw(vendor.result.error))

----------------------------------------------------------------------------
(* C9: for every request of one of the five types, every vendor result and every
   template configuration, process_request ends in exactly one of three ways: it
   returns an artifact with a non-empty template id, it raises SkipRequest, or it
   raises FailRequest. *)
C9_ThreeOutcomes ==
    (pc = "done" /\ req.type \in RequestTypes) =>
        \/ outcome.kind = "artifact" /\ outcome.template_id # ""
        \/ outcome.kind = "SkipRequest"
        \/ outcome.kind = "FailRequest"

----------------------------------------------------------------------------
(* C10: when a vendor operation (create, change, cancel, suspend or resume)
   raises a transport-level exception instead of returning a result,
   process_request ends with SkipRequest. *)
C10_TransportErrorIsTransient ==
    (pc = "done" /\ req.type \in RequestTypes /\ vendor.raises = "TransportError") =>
        outcome.kind = "SkipRequest"

----------------------------------------------------------------------------
(* C11: a FailRequest or InquireRequest raised during the pre-check or the
   vendor step of a handler reaches the caller of process_request as the same
   kind with the same message; no exception raised before the template step is
   converted, only those raised during the template resolution are. *)
C11_FailAndInquirePropagate ==
    pc = "done" =>
        /\ vendor.raises # "none" => outcome = Exc(vendor.raises, Raw(vendor.text))
        /\ (req.type = "change" /\ is_downsize_request(req.items))
              => outcome = Exc("FailRequest", NOT_ALLOWED_DOWNSIZE)
        /\ (~vendorOk /\ inflight.kind \in {"FailRequest", "InquireRequest"})
              => outcome = inflight
        /\ outcome.kind \in {"FailRequest", "InquireRequest"} => ~vendorOk

C11_Witness ==
    /\ pc = "done"
    /\ req.type = "resume"
    /\ vendor.raises = "InquireRequest"
    /\ outcome = Exc("InquireRequest", Raw("vendor down"))

----------------------------------------------------------------------------
(* C12: check_order_parameters raises InquireRequest with a non-empty message
   whenever the customer_admin_email parameter is empty or does not match the
   email pattern, the parameter list it passes holds the email only when the
   email matched, and it raises nothing when the email is present and valid. *)
C12_InvalidEmailInquires ==
    (pc = "checked" /\ param.present) =>
        LET valid == param.value # <<>> /\ EmailRegexMatches(param.value)
        IN  /\ ~valid => (checked.kind = "InquireRequest" /\ checked.msg # "")
            /\ checked.kind = "InquireRequest" => (checked.params # <<>> <=> valid)
            /\ valid => checked.kind = "None"

\* C12 where it holds: a present and valid email raises nothing
C12_HoldsForValidEmail ==
    (pc = "checked" /\ param.present
     /\ param.value # <<>> /\ EmailRegexMatches(param.value)) => checked.kind = "None"

\* what the code does: InquireRequest is never raised
C12_NeverInquires == checked.kind # "InquireRequest"

\* a valid email is among the inputs
C12_ValidEmailChecked ==
    /\ pc = "checked"
    /\ param.value = <<"a", "a", "@", "a", ".", "a", "a">>
    /\ EmailRegexMatches(param.value)
    /\ checked.kind = "None"

----------------------------------------------------------------------------
(* C13: the template kind asked of the resolver depends only on the request
   type: cancel and suspend ask for 'suspendSubscriptionTemplate', purchase,
   change and resume for 'activationTemplate', whatever the vendor result holds;
   a returned artifact carries the id configured for that kind. *)
KindOfType(type) ==
    IF type \in {"cancel", "suspend"} THEN "suspendSubscriptionTemplate"
    ELSE "activationTemplate"

C13_TemplateKindByType ==
    /\ \A i \in 1..Len(calls) :
          calls[i].op = "get_activation_template" => calls[i].id = KindOfType(req.type)
    /\ (pc = "done" /\ outcome.kind = "artifact" /\ req.type \in RequestTypes)
          => outcome.template_id = req.configuration[KindOfType(req.type)]

C13_Witness ==
    /\ pc = "done"
    /\ req.type = "cancel"
    /\ FirstErrorIsNamed(vendor.result)
    /\ CallsOf("get_activation_template")
          = <<Call("get_activation_template", "suspendSubscriptionTemplate", "")>>
    /\ outcome = Returned("TL-SUS")

----------------------------------------------------------------------------
(* C14: the change handler calls update_parameters, with the creationDate
   marker, if and only if the vendor change result's status code equals
   'success' compared without regard to case; for every other vendor result of
   a change request update_parameters is not called. *)
C14_ChangeMarksOnlySuccess ==
    req.type = "change" =>
        CallsOf("update_parameters") =
            IF VendorReturned /\ "status" \in vendor.result.keys
               /\ vendor.result.status \in {"success", "SUCCESS"}
            THEN <<Call("update_parameters", "creationDate", "now")>>
            ELSE <<>>

C14_Witness ==
    /\ pc = "done"
    /\ req.type = "change"
    /\ vendor.result.status = "SUCCESS"
    /\ CallsOf("update_parameters") = <<Call("update_parameters", "creationDate", "now")>>
    /\ params.creationDate = "now"

----------------------------------------------------------------------------
(* C15: purchase and change return an activation artifact only if the vendor
   result of that call was a success (a non-empty tenantId for purchase, a
   success status code for change); for every vendor result that is not a
   success, also one with neither an errors list nor an error field, the
   handler raises a failure and returns no artifact. *)
C15_ArtifactOnlyOnSuccess ==
    (pc = "done" /\ req.type \in {"purchase", "change"} /\ VendorReturned
     /\ ~IsSuccess(req.type, vendor.result)) =>
        /\ outcome.kind # "artifact"
        /\ IsExc(outcome)

\* C15 where it holds: purchase
C15_HoldsForPurchase ==
    (pc = "done" /\ req.type = "purchase" /\ VendorReturned
     /\ ~IsSuccess(req.type, vendor.result)) =>
        /\ outcome.kind # "artifact"
        /\ IsExc(outcome)

----------------------------------------------------------------------------
(* C16: for a request whose type is none of the five, process_request runs no
   handler, makes no vendor call and no update_parameters call, raises nothing
   and returns None. *)
C16_UnknownTypeReturnsNone ==
    (req.type \notin RequestTypes /\ pc # "idle") =>
        /\ handlers = <<>>
        /\ calls = <<>>
        /\ pc \in {"process_request", "return", "done"}
        /\ ~IsExc(inflight)
        /\ pc = "done" => outcome = ReturnedNone

C16_Witness ==
    /\ pc = "done"
    /\ req.type = "adjustment"
    /\ outcome = ReturnedNone
    /\ calls = <<>>

----------------------------------------------------------------------------
(* C17: across the deliveries of one purchase request the handler never looks at
   the persisted subscriptionId: every delivery calls the vendor create
   operation once (no retry inside a call), so the create calls number the
   deliveries; when a delivery ends in SkipRequest after a successful create
   (the template id is empty) the subscriptionId it stored stays stored, and the
   later deliveries create again. *)
C17_RedeliveryCreatesAgain ==
    /\ [](req.type = "purchase" =>
            /\ creates = IF pc \in {"process_request", "purchase"}
                         THEN attempts - 1 ELSE attempts
            /\ Len(CallsOf("create_subscription")) <= 1
            /\ (pc = "done" /\ VendorReturned /\ IsSuccess("purchase", vendor.result)
                /\ outcome.kind = "SkipRequest")
                  => params.subscriptionId = vendor.result.tenantId)
    /\ [][(req.type = "purchase" /\ params.subscriptionId \in TenantIds)
             => params'.subscriptionId \in TenantIds]_vars

C17_Witness ==
    /\ pc = "done"
    /\ req.type = "purchase"
    /\ attempts = 2
    /\ creates = 2
    /\ IsSuccess("purchase", vendor.result)
    /\ outcome = Exc("SkipRequest", EMPTY_ACTIVATION_TILE("MP-1"))
    /\ params.subscriptionId = "T1"

====
